---- MODULE Spec2Model ----
(***************************************************************************)
(* A model of pikaboard's two image scripts:                                *)
(*   scripts/generate_pika_walk.py   walk / idle spritesheets + manifest    *)
(*   scripts/generate_avatars.py     512x512 avatar batch                   *)
(*                                                                          *)
(* An image is a record [mode, w, h, bg, px]: px maps the positions whose   *)
(* pixel differs from bg to that pixel (a pixel is <<r, g, b, a>>), so a    *)
(* 1024x1024 source with a handful of subject pixels stays small.  Every    *)
(* operation below keeps that normal form (no px entry equal to bg), hence  *)
(* two images are pixel-identical exactly when the records are equal.       *)
(***************************************************************************)
EXTENDS Integers, Sequences, FiniteSets, TLC

VARIABLES
    \* generate_pika_walk.py : main() and process_idle_frames()
    pc,                 \* position in main()
    idx,                \* index of the running for-loop
    walkFiles,          \* raw/walk_<direction>.png    : direction -> source number, 0 = no file
    idleFiles,          \* raw_v2/idle_<direction>.png : direction -> source number, 0 = no file
    raw_frames,         \* main(): direction -> Cell
    direction_frames,   \* main(): direction -> <<4 Cells>>
    idle_frames,        \* process_idle_frames(): direction -> Cell
    outputs,            \* files written to output_dir: name -> content
    \* generate_avatars.py : main(), run several times in a row
    apc,                \* "loop" | "done"
    run,                \* number of the current batch run
    ci,                 \* index into characters
    avatars,            \* character -> "nodir" | "nofile" | image of avatar.png
    avatars0,           \* the file system before the first run
    snap,               \* the file system at the end of the first run
    saves,              \* log of img_resized.save calls: <<run, character>>
    \* the pure image functions applied to one input
    pfn,                \* "input" | the function applied
    pin,                \* the input image
    ppad,               \* crop_to_content's padding
    pres                \* the result

walkVars   == <<pc, idx, walkFiles, idleFiles, raw_frames, direction_frames, idle_frames, outputs>>
avatarVars == <<apc, run, ci, avatars, avatars0, snap, saves>>
pureVars   == <<pfn, pin, ppad, pres>>
vars       == <<walkVars, avatarVars, pureVars>>

----------------------------------------------------------------------------
(* Bounds of the model *)

\* pure functions: the input frames are at most MaxDim x MaxDim
MaxDim == 3
\* crop_to_content is applied with padding 0..MaxPad
MaxPad == 2
\* the south walk source is one of the sources 1..NumSrc
NumSrc == 4
\* the avatar batch covers the first NumChars characters, and is run MaxRuns times
NumChars == 3
MaxRuns == 2

----------------------------------------------------------------------------
(* Program constants *)

CELL_SIZE == 128
FRAMES == 4
DIRECTIONS == <<"S", "W", "N", "E">>
GROUND_LINE == 110
MARGIN == 8
DefaultThreshold == 250
LoadPadding == 10
AvatarSize == 512

Clear == <<0, 0, 0, 0>>
White == <<255, 255, 255, 255>>
TransparentWhite == <<255, 255, 255, 0>>

----------------------------------------------------------------------------
(* Images (PIL.Image as the scripts use it) *)

Min2(a, b) == IF a <= b THEN a ELSE b
Max2(a, b) == IF a >= b THEN a ELSE b
Abs(a) == IF a < 0 THEN -a ELSE a
MinOf(S) == CHOOSE x \in S : \A y \in S : x <= y
MaxOf(S) == CHOOSE x \in S : \A y \in S : x >= y

Positions(w, h) == (0 .. (w - 1)) \X (0 .. (h - 1))

\* An image in normal form from a pixel map f over some positions.
MkImage(mode, w, h, bg, f) ==
    [mode |-> mode, w |-> w, h |-> h, bg |-> bg,
     px |-> [p \in {q \in DOMAIN f : f[q] # bg} |-> f[p]]]

\* Image.new('RGBA', (w, h), color)
NewImage(w, h, color) ==
    [mode |-> "RGBA", w |-> w, h |-> h, bg |-> color, px |-> [p \in {} |-> color]]

getpixel(img, p) == IF p \in DOMAIN img.px THEN img.px[p] ELSE img.bg

\* img.convert('RGBA'): an RGB pixel is held as <<r, g, b, 255>> already
convert(img) == [img EXCEPT !.mode = "RGBA"]

\* The positions of img whose alpha is not 0.
Visible(img) ==
    IF img.bg[4] = 0
    THEN {p \in DOMAIN img.px : img.px[p][4] # 0}
    ELSE {p \in Positions(img.w, img.h) : getpixel(img, p)[4] # 0}

\* RemoveWhitePixel with ">=" for ">": a pixel at the threshold is removed too
RemoveWhitePixel_AtThreshold(item, threshold) ==
    IF item[1] >= threshold /\ item[2] >= threshold /\ item[3] >= threshold
    THEN <<255, 255, 255, 0>>
    ELSE item

\* The pixel test of remove_white_background
RemoveWhitePixel(item, threshold) ==
    IF item[1] > threshold /\ item[2] > threshold /\ item[3] > threshold
    THEN <<255, 255, 255, 0>>
    ELSE item

remove_white_background(img0, threshold) ==
    LET img == IF img0.mode # "RGBA" THEN convert(img0) ELSE img0
    IN  MkImage(img.mode, img.w, img.h, RemoveWhitePixel(img.bg, threshold),
                [p \in DOMAIN img.px |-> RemoveWhitePixel(img.px[p], threshold)])

\* The pixel test inlined in create_avatar
AvatarRemovePixel(item) ==
    IF item[1] > 250 /\ item[2] > 250 /\ item[3] > 250
    THEN <<255, 255, 255, 0>>
    ELSE item

\* create_avatar up to img.putdata(new_data)
avatar_remove_background(img0) ==
    LET img == IF img0.mode # "RGBA" THEN convert(img0) ELSE img0
    IN  MkImage(img.mode, img.w, img.h, AvatarRemovePixel(img.bg),
                [p \in DOMAIN img.px |-> AvatarRemovePixel(img.px[p])])

\* alpha.getbbox(): <<left, top, right, bottom>> of the nonzero alpha, <<>> for None
getbbox(img) ==
    LET vis == Visible(img)
    IN  IF vis = {} THEN <<>>
        ELSE <<MinOf({p[1] : p \in vis}), MinOf({p[2] : p \in vis}),
               MaxOf({p[1] : p \in vis}) + 1, MaxOf({p[2] : p \in vis}) + 1>>

\* img.crop((left, top, right, bottom)), the box inside the image
crop(img, left, top, right, bottom) ==
    LET kept == {q \in DOMAIN img.px :
                    /\ left <= q[1] /\ q[1] < right
                    /\ top <= q[2] /\ q[2] < bottom}
    IN  MkImage(img.mode, right - left, bottom - top, img.bg,
                [p \in {<<q[1] - left, q[2] - top>> : q \in kept}
                    |-> img.px[<<p[1] + left, p[2] + top>>]])

\* crop_to_content without the min() that clamps right and bottom
crop_to_content_Unclamped(img0, padding) ==
    LET img == IF img0.mode # "RGBA" THEN convert(img0) ELSE img0
        bbox == getbbox(img)
    IN  IF bbox # <<>>
        THEN crop(img, Max2(0, bbox[1] - padding), Max2(0, bbox[2] - padding),
                  bbox[3] + padding, bbox[4] + padding)
        ELSE img

crop_to_content(img0, padding) ==
    LET img == IF img0.mode # "RGBA" THEN convert(img0) ELSE img0
        bbox == getbbox(img)
    IN  IF bbox # <<>>
        THEN LET left == Max2(0, bbox[1] - padding)
                 top == Max2(0, bbox[2] - padding)
                 right == Min2(img.w, bbox[3] + padding)
                 bottom == Min2(img.h, bbox[4] + padding)
             IN  crop(img, left, top, right, bottom)
        ELSE img

----------------------------------------------------------------------------
(* Resizing, pasting, and the cell pipeline of generate_pika_walk.py *)

\* The size Image.thumbnail((x, y)) gives a w x h image: the aspect ratio is
\* kept, the image is never enlarged, and of floor and ceil the one whose
\* ratio is nearer the original's is taken (floor on a tie), at least 1.
thumbnail_size(w, h, x, y) ==
    IF x >= w /\ y >= h THEN <<w, h>>
    ELSE IF x * h >= w * y
         THEN LET lo == (y * w) \div h
                  hi == IF lo * h = y * w THEN lo ELSE lo + 1
                  pick == IF Abs(w * y - lo * h) <= Abs(w * y - hi * h) THEN lo ELSE hi
              IN  <<Max2(pick, 1), y>>
         ELSE LET lo == (x * h) \div w
                  hi == IF lo * w = x * h THEN lo ELSE lo + 1
                  pick == IF lo = 0 \/ Abs(w * lo - x * h) * hi <= Abs(w * hi - x * h) * lo
                          THEN lo ELSE hi
              IN  <<x, Max2(pick, 1)>>

\* img.resize((nw, nh), LANCZOS).  The size is exact.  The filter's arithmetic is
\* not modelled: each pixel that differs from the background lands on the output
\* pixel whose footprint holds it, the last one in raster order winning.
resize(img, nw, nh) ==
    IF nw = img.w /\ nh = img.h THEN img
    ELSE LET to(p) == <<(p[1] * nw) \div img.w, (p[2] * nh) \div img.h>>
             last(t) == CHOOSE p \in DOMAIN img.px :
                           /\ to(p) = t
                           /\ \A q \in DOMAIN img.px :
                                 to(q) = t => \/ q[2] < p[2]
                                              \/ (q[2] = p[2] /\ q[1] <= p[1])
         IN  MkImage(img.mode, nw, nh, img.bg,
                     [t \in {to(p) : p \in DOMAIN img.px} |-> img.px[last(t)]])

\* img.thumbnail((x, y), LANCZOS)
thumbnail(img, x, y) ==
    LET size == thumbnail_size(img.w, img.h, x, y)
    IN  resize(img, size[1], size[2])

\* Pillow's paste with a mask blends every band, alpha included:
\* out = DIV255(out * (255 - mask) + in * mask)
DIV255(a) == LET tmp == a + 128 IN ((tmp \div 256) + tmp) \div 256
BLEND(mask, in1, in2) == DIV255(in1 * (255 - mask) + in2 * mask)
BlendPixel(mask, out, in) ==
    <<BLEND(mask, out[1], in[1]), BLEND(mask, out[2], in[2]),
      BLEND(mask, out[3], in[3]), BLEND(mask, out[4], in[4])>>

\* dst.paste(src, (x, y), src) when masked, dst.paste(src, (x, y), None) when not;
\* the part of src that falls outside dst is dropped.
paste(dst, src, x, y, masked) ==
    LET inside(p) == /\ 0 <= p[1] + x /\ p[1] + x < dst.w
                     /\ 0 <= p[2] + y /\ p[2] + y < dst.h
        from == {p \in (IF masked THEN Visible(src) ELSE Positions(src.w, src.h)) : inside(p)}
        new(p) == IF masked
                  THEN BlendPixel(getpixel(src, p)[4], getpixel(dst, <<p[1] + x, p[2] + y>>),
                                  getpixel(src, p))
                  ELSE getpixel(src, p)
    IN  MkImage(dst.mode, dst.w, dst.h, dst.bg,
                [t \in DOMAIN dst.px \cup {<<p[1] + x, p[2] + y>> : p \in from} |->
                    IF <<t[1] - x, t[2] - y>> \in from
                    THEN new(<<t[1] - x, t[2] - y>>)
                    ELSE dst.px[t]])

center_in_cell(img0, cell_size) ==
    LET cell == NewImage(cell_size, cell_size, Clear)
        img == thumbnail(img0, cell_size - 16, cell_size - 16)
        x == (cell_size - img.w) \div 2
        y == cell_size - img.h - 8
    IN  paste(cell, img, x, y, img.mode = "RGBA")

\* load_and_process_frame(filepath), img being the image Image.open gives
load_and_process_frame(img) ==
    center_in_cell(crop_to_content(remove_white_background(img, DefaultThreshold),
                                   LoadPadding),
                   CELL_SIZE)

create_walk_variations(base_img) ==
    LET w == base_img.w
        h == base_img.h
        frame1 == paste(NewImage(w, h, Clear), base_img, 0, 3, TRUE)
        frame3 == paste(NewImage(w, h, Clear), base_img, 0, -2, TRUE)
    IN  <<base_img, frame1, base_img, frame3>>

\* flip_horizontal with FLIP_TOP_BOTTOM for FLIP_LEFT_RIGHT
flip_horizontal_TopBottom(img) ==
    MkImage(img.mode, img.w, img.h, img.bg,
            [p \in {<<q[1], img.h - 1 - q[2]>> : q \in DOMAIN img.px} |->
                img.px[<<p[1], img.h - 1 - p[2]>>]])

\* img.transpose(Image.FLIP_LEFT_RIGHT)
flip_horizontal(img) ==
    MkImage(img.mode, img.w, img.h, img.bg,
            [p \in {<<img.w - 1 - q[1], q[2]>> : q \in DOMAIN img.px} |->
                img.px[<<img.w - 1 - p[1], p[2]>>]])

\* The inner loop of create_spritesheet: the frames of one row, from column col on.
RECURSIVE paste_frames(_, _, _, _)

\* paste_frames with x and y swapped: the directions become columns
paste_frames_Transposed(spritesheet, frames, row, col) ==
    IF col > Len(frames) THEN spritesheet
    ELSE paste_frames(paste(spritesheet, frames[col],
                            (row - 1) * CELL_SIZE, (col - 1) * CELL_SIZE, TRUE),
                      frames, row, col + 1)

paste_frames(spritesheet, frames, row, col) ==
    IF col > Len(frames) THEN spritesheet
    ELSE paste_frames(paste(spritesheet, frames[col],
                            (col - 1) * CELL_SIZE, (row - 1) * CELL_SIZE, TRUE),
                      frames, row, col + 1)

\* The outer loop of create_spritesheet, from row on: direction_frames[direction]
\* raises KeyError for a direction the mapping does not hold.
RECURSIVE paste_directions(_, _, _)
paste_directions(spritesheet, dframes, row) ==
    IF row > Len(DIRECTIONS) THEN [raised |-> "", image |-> spritesheet]
    ELSE IF DIRECTIONS[row] \notin DOMAIN dframes
         THEN [raised |-> "KeyError", image |-> spritesheet]
         ELSE paste_directions(paste_frames(spritesheet, dframes[DIRECTIONS[row]], row, 1),
                               dframes, row + 1)

create_spritesheet(dframes) ==
    LET sheet_width == CELL_SIZE * FRAMES
        sheet_height == CELL_SIZE * Len(DIRECTIONS)
    IN  paste_directions(NewImage(sheet_width, sheet_height, Clear), dframes, 1)

\* The DIRECTIONS local to process_idle_frames
IDLE_DIRECTIONS == <<"S", "W", "N", "E">>

\* The sheet loop of process_idle_frames, from row on: a direction without a
\* frame is skipped, a frame is pasted into the 4 columns of its row.
RECURSIVE paste_idle(_, _, _)
paste_idle(sheet, iframes, row) ==
    IF row > Len(IDLE_DIRECTIONS) THEN sheet
    ELSE LET direction == IDLE_DIRECTIONS[row]
             frame == iframes[direction]
         IN  IF direction \in DOMAIN iframes
             THEN paste_idle(paste_frames(sheet, <<frame, frame, frame, frame>>, row, 1),
                             iframes, row + 1)
             ELSE paste_idle(sheet, iframes, row + 1)

\* The manifest main() writes
Manifest ==
    [agent |-> "pika", version |-> 1, cellSize |-> 128, directions |-> 4,
     directionOrder |-> <<"S", "W", "N", "E">>,
     animations |-> [idle |-> [file |-> "idle.png", frames |-> 4, fps |-> 5],
                     walk |-> [file |-> "walk.png", frames |-> 4, fps |-> 5]],
     groundLine |-> 110,
     safeZone |-> [margin |-> 8]]

----------------------------------------------------------------------------
(* The pure functions on one bounded input *)

Palette == {<<200, 10, 10, 255>>, <<250, 255, 251, 255>>, <<251, 252, 253, 128>>, <<10, 10, 10, 0>>}
Backgrounds == {Clear, White, TransparentWhite}
Modes == {"RGB", "RGBA"}

\* Every pixel map with at most two entries over the positions of a w x h frame.
PixelMaps(w, h) ==
    UNION {[S -> Palette] :
              S \in {{}} \cup {{p, q} : p \in Positions(w, h), q \in Positions(w, h)}}

\* An RGB file has no alpha channel: its pixels are opaque.
WellFormed(img) ==
    img.mode = "RGB" => img.bg[4] = 255 /\ \A p \in DOMAIN img.px : img.px[p][4] = 255

\* The input is any well-formed frame of at most MaxDim x MaxDim.
PureInit ==
    /\ pfn = "input"
    /\ \E w \in 1 .. MaxDim, h \in 1 .. MaxDim, m \in Modes, bg \in Backgrounds :
          \E f \in PixelMaps(w, h) :
              /\ WellFormed(MkImage(m, w, h, bg, f))
              /\ pin = MkImage(m, w, h, bg, f)
    /\ ppad = 0
    /\ pres = pin

\* generate_pika_walk.py: remove_white_background(img)
ApplyRemoveWhite ==
    /\ pfn = "input"
    /\ pfn' = "remove_white_background"
    /\ pres' = remove_white_background(pin, DefaultThreshold)
    /\ UNCHANGED <<pin, ppad>>
    /\ UNCHANGED <<walkVars, avatarVars>>

\* generate_avatars.py: the background loop of create_avatar
ApplyAvatarRemove ==
    /\ pfn = "input"
    /\ pfn' = "avatar_remove_background"
    /\ pres' = avatar_remove_background(pin)
    /\ UNCHANGED <<pin, ppad>>
    /\ UNCHANGED <<walkVars, avatarVars>>

\* generate_pika_walk.py: crop_to_content(img, padding)
ApplyCrop ==
    /\ pfn = "input"
    /\ \E padding \in 0 .. MaxPad :
          /\ ppad' = padding
          /\ pres' = crop_to_content(pin, padding)
    /\ pfn' = "crop_to_content"
    /\ UNCHANGED pin
    /\ UNCHANGED <<walkVars, avatarVars>>

----------------------------------------------------------------------------
(* One run of generate_pika_walk.py *)

\* The raw images a file may hold.
Source(n) ==
    CASE n = 1 ->   \* a transparent 40x60 frame, the subject down to the last row
            MkImage("RGBA", 40, 60, Clear,
                    (<<5, 10>> :> <<200, 10, 10, 255>>) @@ (<<20, 30>> :> <<10, 200, 10, 30>>)
                    @@ (<<30, 59>> :> <<10, 10, 200, 255>>))
      [] n = 2 ->   \* 100x100 on white, the subject well inside, one soft pixel
            MkImage("RGBA", 100, 100, White,
                    (<<40, 30>> :> <<200, 10, 10, 255>>) @@ (<<60, 70>> :> <<0, 0, 200, 128>>))
      [] n = 3 ->   \* 1024x1024 on white, without alpha channel
            MkImage("RGB", 1024, 1024, White,
                    (<<200, 100>> :> <<200, 10, 10, 255>>) @@ (<<800, 1000>> :> <<10, 10, 200, 255>>))
      [] n = 4 ->   \* nothing but white
            MkImage("RGB", 50, 50, White, [p \in {} |-> White])
      [] OTHER ->   \* a 3x2 frame on a light grey the threshold keeps
            MkImage("RGBA", 3, 2, <<250, 250, 250, 255>>, (<<0, 0>> :> <<1, 2, 3, 255>>))

WALK_LOAD == <<"S", "N", "E", "SE", "NE">>
IDLE_LOAD == <<"S", "W", "N", "NW", "SE">>

\* What raw/walk_<direction>.png may be: 0 is no file.
WalkChoices(direction) ==
    CASE direction = "S" -> 0 .. NumSrc
      [] direction = "N" -> {0, 2}
      [] direction = "E" -> {0, 1, 3}
      [] OTHER -> {0, 1}

\* What raw_v2/idle_<direction>.png may be: 0 is no file.
IdleChoices(direction) ==
    CASE direction = "S" -> {0, 2}
      [] direction = "N" -> {0, 3}
      [] OTHER -> {0, 1}

NoFrames == [d \in {} |-> Clear]
Put(dict, key, value) == [k \in DOMAIN dict \cup {key} |-> IF k = key THEN value ELSE dict[k]]
Range(seq) == {seq[i] : i \in DOMAIN seq}

WalkInit ==
    /\ pc = "load_walk"
    /\ idx = 1
    /\ walkFiles \in {f \in [Range(WALK_LOAD) -> 0 .. NumSrc] :
                         \A d \in Range(WALK_LOAD) : f[d] \in WalkChoices(d)}
    /\ idleFiles \in {f \in [Range(IDLE_LOAD) -> 0 .. 3] :
                         \A d \in Range(IDLE_LOAD) : f[d] \in IdleChoices(d)}
    /\ raw_frames = NoFrames
    /\ direction_frames = NoFrames
    /\ idle_frames = NoFrames
    /\ outputs = NoFrames

\* main(): one turn of "for direction in ['S', 'N', 'E', 'SE', 'NE']"
LoadWalk ==
    /\ pc = "load_walk"
    /\ LET direction == WALK_LOAD[idx]
       IN  raw_frames' = IF walkFiles[direction] # 0
                         THEN Put(raw_frames, direction,
                                  load_and_process_frame(Source(walkFiles[direction])))
                         ELSE raw_frames
    /\ idx' = IF idx = Len(WALK_LOAD) THEN 1 ELSE idx + 1
    /\ pc' = IF idx = Len(WALK_LOAD) THEN "flip_walk" ELSE pc
    /\ UNCHANGED <<walkFiles, idleFiles, direction_frames, idle_frames, outputs>>
    /\ UNCHANGED <<avatarVars, pureVars>>

\* main(): W = flip E
FlipWalk ==
    /\ pc = "flip_walk"
    /\ raw_frames' = IF "E" \in DOMAIN raw_frames
                     THEN Put(raw_frames, "W", flip_horizontal(raw_frames["E"]))
                     ELSE raw_frames
    /\ pc' = "variations"
    /\ UNCHANGED <<idx, walkFiles, idleFiles, direction_frames, idle_frames, outputs>>
    /\ UNCHANGED <<avatarVars, pureVars>>

\* main(): one turn of "for direction in DIRECTIONS"
WalkVariations ==
    /\ pc = "variations"
    /\ LET direction == DIRECTIONS[idx]
       IN  direction_frames' = IF direction \in DOMAIN raw_frames
                               THEN Put(direction_frames, direction,
                                        create_walk_variations(raw_frames[direction]))
                               ELSE direction_frames
    /\ idx' = IF idx = Len(DIRECTIONS) THEN 1 ELSE idx + 1
    /\ pc' = IF idx = Len(DIRECTIONS) THEN "assemble" ELSE pc
    /\ UNCHANGED <<walkFiles, idleFiles, raw_frames, idle_frames, outputs>>
    /\ UNCHANGED <<avatarVars, pureVars>>

\* main(): create_spritesheet and spritesheet.save; a KeyError ends the run
AssembleWalk ==
    /\ pc = "assemble"
    /\ LET made == create_spritesheet(direction_frames)
       IN  IF made.raised # ""
           THEN /\ pc' = "aborted"
                /\ outputs' = outputs
           ELSE /\ pc' = "load_idle"
                /\ outputs' = Put(outputs, "walk.png", made.image)
    /\ UNCHANGED <<idx, walkFiles, idleFiles, raw_frames, direction_frames, idle_frames>>
    /\ UNCHANGED <<avatarVars, pureVars>>

\* process_idle_frames(): one turn of "for direction in ['S', 'W', 'N', 'NW', 'SE']"
LoadIdle ==
    /\ pc = "load_idle"
    /\ LET direction == IDLE_LOAD[idx]
       IN  idle_frames' = IF idleFiles[direction] # 0
                          THEN Put(idle_frames, direction,
                                   load_and_process_frame(Source(idleFiles[direction])))
                          ELSE idle_frames
    /\ idx' = IF idx = Len(IDLE_LOAD) THEN 1 ELSE idx + 1
    /\ pc' = IF idx = Len(IDLE_LOAD) THEN "flip_idle" ELSE pc
    /\ UNCHANGED <<walkFiles, idleFiles, raw_frames, direction_frames, outputs>>
    /\ UNCHANGED <<avatarVars, pureVars>>

\* process_idle_frames(): E = flip W
FlipIdle ==
    /\ pc = "flip_idle"
    /\ idle_frames' = IF "W" \in DOMAIN idle_frames
                      THEN Put(idle_frames, "E", flip_horizontal(idle_frames["W"]))
                      ELSE idle_frames
    /\ pc' = "assemble_idle"
    /\ UNCHANGED <<idx, walkFiles, idleFiles, raw_frames, direction_frames, outputs>>
    /\ UNCHANGED <<avatarVars, pureVars>>

\* process_idle_frames(): the 512x512 sheet, its rows, sheet.save
AssembleIdle ==
    /\ pc = "assemble_idle"
    /\ outputs' = Put(outputs, "idle.png", paste_idle(NewImage(512, 512, Clear), idle_frames, 1))
    /\ pc' = "manifest"
    /\ UNCHANGED <<idx, walkFiles, idleFiles, raw_frames, direction_frames, idle_frames>>
    /\ UNCHANGED <<avatarVars, pureVars>>

\* main(): json.dump(manifest)
WriteManifest ==
    /\ pc = "manifest"
    /\ outputs' = Put(outputs, "manifest.json", Manifest)
    /\ pc' = "done"
    /\ UNCHANGED <<idx, walkFiles, idleFiles, raw_frames, direction_frames, idle_frames>>
    /\ UNCHANGED <<avatarVars, pureVars>>

----------------------------------------------------------------------------
(* generate_avatars.py, run MaxRuns times in a row *)

characters ==
    <<"pika", "bulbi", "tortoise", "sala", "evoli", "psykokwak", "mew", "lanturn", "porygon">>

\* The avatar.png files a character folder may hold.
AvatarSource(n) ==
    CASE n = 1 ->   \* already 512x512, on white
            MkImage("RGBA", 512, 512, White,
                    (<<100, 100>> :> <<200, 10, 10, 255>>) @@ (<<300, 400>> :> <<0, 0, 200, 128>>))
      [] n = 2 ->   \* 256x256 on white, without alpha channel
            MkImage("RGB", 256, 256, White, (<<10, 20>> :> <<200, 10, 10, 255>>))
      [] OTHER ->   \* 100x300, transparent
            MkImage("RGBA", 100, 300, Clear, (<<99, 299>> :> <<10, 200, 10, 255>>))

\* A character folder: absent, without avatar.png, or with one.
Folders ==
    {[dir |-> FALSE, file |-> <<>>], [dir |-> TRUE, file |-> <<>>]}
    \cup {[dir |-> TRUE, file |-> <<AvatarSource(n)>>] : n \in 1 .. 3}

\* main() without the size check: nothing is skipped as done already
AlreadySized_Unchecked(img) == FALSE

\* main(): img.size == (512, 512)
AlreadySized(img) == img.w = 512 /\ img.h = 512

\* create_avatar(source_path, output_path, size): the file's state afterwards,
\* and whether img_resized.save ran
create_avatar(file, size) ==
    IF file = <<>>
    THEN [saved |-> FALSE, file |-> file]
    ELSE LET img == avatar_remove_background(file[1])
             img_resized == resize(img, size, size)
         IN  [saved |-> TRUE, file |-> <<img_resized>>]

AvatarInit ==
    /\ apc = "loop"
    /\ run = 1
    /\ ci = 1
    /\ avatars \in [1 .. NumChars -> Folders]
    /\ avatars0 = avatars
    /\ snap = avatars
    /\ saves = {}

\* main(): one turn of "for char in characters"
AvatarStep ==
    /\ apc = "loop"
    /\ LET folder == avatars[ci]
           skip == \/ ~folder.dir
                   \/ (folder.file # <<>> /\ AlreadySized(folder.file[1]))
           made == create_avatar(folder.file, AvatarSize)
           after == IF skip THEN avatars
                    ELSE [avatars EXCEPT ![ci] = [dir |-> TRUE, file |-> made.file]]
       IN  /\ avatars' = after
           /\ saves' = IF ~skip /\ made.saved THEN saves \cup {<<run, characters[ci]>>} ELSE saves
           /\ snap' = IF ci = NumChars /\ run = 1 THEN after ELSE snap
    /\ ci' = IF ci = NumChars THEN 1 ELSE ci + 1
    /\ apc' = IF ci = NumChars THEN "exit" ELSE apc
    /\ UNCHANGED <<run, avatars0>>
    /\ UNCHANGED <<walkVars, pureVars>>

\* the script is started again
AvatarRerun ==
    /\ apc = "exit"
    /\ run < MaxRuns
    /\ run' = run + 1
    /\ apc' = "loop"
    /\ UNCHANGED <<ci, avatars, avatars0, snap, saves>>
    /\ UNCHANGED <<walkVars, pureVars>>

----------------------------------------------------------------------------
(* Specifications *)

WalkIdle ==
    /\ pc = "done"
    /\ idx = 1
    /\ walkFiles = [d \in Range(WALK_LOAD) |-> 0]
    /\ idleFiles = [d \in Range(IDLE_LOAD) |-> 0]
    /\ raw_frames = NoFrames
    /\ direction_frames = NoFrames
    /\ idle_frames = NoFrames
    /\ outputs = NoFrames

AvatarIdle ==
    /\ apc = "exit"
    /\ run = MaxRuns
    /\ ci = 1
    /\ avatars = [c \in 1 .. NumChars |-> [dir |-> FALSE, file |-> <<>>]]
    /\ avatars0 = avatars
    /\ snap = avatars
    /\ saves = {}

PureIdle ==
    /\ pfn = "idle"
    /\ pin = NewImage(1, 1, Clear)
    /\ ppad = 0
    /\ pres = pin

Next ==
    \/ LoadWalk
    \/ FlipWalk
    \/ WalkVariations
    \/ AssembleWalk
    \/ LoadIdle
    \/ FlipIdle
    \/ AssembleIdle
    \/ WriteManifest

AvatarNext ==
    \/ AvatarStep
    \/ AvatarRerun

PureNext ==
    \/ ApplyRemoveWhite
    \/ ApplyAvatarRemove
    \/ ApplyCrop

Init == WalkInit /\ AvatarIdle /\ PureIdle

\* one run of generate_pika_walk.py over every choice of raw files
Spec == Init /\ [][Next]_vars

\* generate_avatars.py run again and again over every choice of folders
AvatarBatchInit == WalkIdle /\ AvatarInit /\ PureIdle
AvatarSpec == AvatarBatchInit /\ [][AvatarNext]_vars

\* the pure image functions over every bounded frame
PureFunctionInit == WalkIdle /\ AvatarIdle /\ PureInit
PureSpec == PureFunctionInit /\ [][PureNext]_vars

----------------------------------------------------------------------------
(* Properties *)

\* The cell of a sheet at (row, col), both from 1.
CellOf(sheet, row, col) ==
    crop(sheet, (col - 1) * 128, (row - 1) * 128, col * 128, row * 128)

\* a is b mirrored left to right: pixel (x, y) of a is pixel (w-1-x, y) of b.
MirrorOf(a, b) ==
    /\ a.w = b.w /\ a.h = b.h /\ a.bg = b.bg
    /\ \A p \in DOMAIN a.px \cup {<<b.w - 1 - q[1], q[2]>> : q \in DOMAIN b.px} :
          getpixel(a, p) = getpixel(b, <<a.w - 1 - p[1], p[2]>>)

\* The row of the lowest visible pixel of a cell, and the rows left below it.
LowestVisibleRow(cell) == MaxOf({p[2] : p \in Visible(cell)})
BottomMargin(cell) == cell.h - 1 - LowestVisibleRow(cell)

\* base with its visible pixels moved dy rows down, values kept, on a fresh
\* transparent canvas; what leaves the canvas is dropped.
Shifted(base, dy) ==
    LET moved == {p \in Visible(base) : 0 <= p[2] + dy /\ p[2] + dy < base.h}
    IN  MkImage("RGBA", base.w, base.h, Clear,
                [t \in {<<p[1], p[2] + dy>> : p \in moved} |-> getpixel(base, <<t[1], t[2] - dy>>)])

AfterAssemble == pc \in {"load_idle", "flip_idle", "assemble_idle", "manifest", "done"}

\* C1: whatever raw walk files exist, the run is not aborted and writes walk.png;
\* the row of a direction without frames is fully transparent, the row of a
\* direction with frames holds them.
C1_WalkSheetForEverySubset ==
    /\ pc # "aborted"
    /\ AfterAssemble =>
          /\ "walk.png" \in DOMAIN outputs
          /\ \A row \in 1 .. 4, col \in 1 .. 4 :
                CellOf(outputs["walk.png"], row, col) =
                    IF DIRECTIONS[row] \in DOMAIN direction_frames
                    THEN paste(NewImage(128, 128, Clear),
                               direction_frames[DIRECTIONS[row]][col], 0, 0, TRUE)
                    ELSE NewImage(128, 128, Clear)

\* C2: every sheet written is cellSize x frames wide and cellSize x directions
\* high with the manifest's values (128, 4 frames, 4 directions), and its rows
\* are the directions in the manifest's directionOrder S, W, N, E.
C2_SheetGeometryMatchesManifest ==
    /\ "walk.png" \in DOMAIN outputs =>
          /\ Manifest.animations.walk.file = "walk.png"
          /\ outputs["walk.png"].w = Manifest.cellSize * Manifest.animations.walk.frames
          /\ outputs["walk.png"].h = Manifest.cellSize * Manifest.directions
          /\ \A row \in 1 .. 4, col \in 1 .. 4 :
                CellOf(outputs["walk.png"], row, col) =
                    paste(NewImage(128, 128, Clear),
                          direction_frames[Manifest.directionOrder[row]][col], 0, 0, TRUE)
    /\ "idle.png" \in DOMAIN outputs =>
          /\ Manifest.animations.idle.file = "idle.png"
          /\ outputs["idle.png"].w = Manifest.cellSize * Manifest.animations.idle.frames
          /\ outputs["idle.png"].h = Manifest.cellSize * Manifest.directions
          /\ \A row \in 1 .. 4, col \in 1 .. 4 :
                CellOf(outputs["idle.png"], row, col) =
                    IF Manifest.directionOrder[row] \in DOMAIN idle_frames
                    THEN paste(NewImage(128, 128, Clear),
                               idle_frames[Manifest.directionOrder[row]], 0, 0, TRUE)
                    ELSE NewImage(128, 128, Clear)
    /\ "manifest.json" \in DOMAIN outputs =>
          /\ outputs["manifest.json"].cellSize = 128
          /\ outputs["manifest.json"].directions = 4
          /\ outputs["manifest.json"].directionOrder = <<"S", "W", "N", "E">>
          /\ outputs["manifest.json"].animations.walk.frames = 4
          /\ outputs["manifest.json"].animations.idle.frames = 4
          /\ outputs["manifest.json"].cellSize * 4 = outputs["walk.png"].w
          /\ outputs["manifest.json"].cellSize * 4 = outputs["idle.png"].h

C2_Witness ==
    /\ pc = "done"
    /\ "manifest.json" \in DOMAIN outputs
    /\ outputs["walk.png"].w = 512 /\ outputs["walk.png"].h = 512
    /\ outputs["idle.png"].w = 512 /\ outputs["idle.png"].h = 512
    /\ Visible(CellOf(outputs["walk.png"], 2, 1)) # {}
    /\ "N" \notin DOMAIN idle_frames

\* C3: once the flip step has run with an east walk source, W is the mirror of
\* E; each of the 4 west frames is the mirror of the east frame of its column,
\* rows kept; and in walk.png, for each of the 4 columns, pixel (x, y) of the
\* west cell is pixel (127-x, y) of the east cell.
C3_WestMirrorsEast ==
    /\ (walkFiles["E"] # 0 /\ pc \notin {"load_walk", "flip_walk"}) =>
          /\ "W" \in DOMAIN raw_frames
          /\ MirrorOf(raw_frames["W"], raw_frames["E"])
    /\ {"W", "E"} \subseteq DOMAIN direction_frames =>
          \A col \in 1 .. 4 : MirrorOf(direction_frames["W"][col], direction_frames["E"][col])
    /\ "walk.png" \in DOMAIN outputs =>
          \A col \in 1 .. 4 :
              MirrorOf(CellOf(outputs["walk.png"], 2, col), CellOf(outputs["walk.png"], 4, col))

C3_Witness ==
    /\ "walk.png" \in DOMAIN outputs
    /\ walkFiles["E"] = 1
    /\ \A col \in 1 .. 4 : Cardinality(Visible(CellOf(outputs["walk.png"], 2, col))) >= 2
    /\ CellOf(outputs["walk.png"], 2, 2) # CellOf(outputs["walk.png"], 4, 2)

C5_AvatarBatchIdempotent ==
    /\ \A c \in 1 .. NumChars :
          (avatars0[c].file # <<>> /\ avatars0[c].file[1].w = 512 /\ avatars0[c].file[1].h = 512)
              => avatars[c] = avatars0[c]
    /\ \A s \in saves : s[1] = 1
    /\ run >= 2 => avatars = snap

C5_Witness ==
    /\ run = 2 /\ apc = "exit"
    /\ saves # {}
    /\ \E c \in 1 .. NumChars : avatars0[c].file # <<>> /\ avatars0[c].file[1].w = 512
    /\ \E c \in 1 .. NumChars : avatars[c] # avatars0[c]

\* (l, t, r, b) is the smallest rectangle that holds every pixel of img with
\* nonzero alpha: each side bounds them all and touches one of them.
LeftOfContent(img, l) == (\A p \in Visible(img) : l <= p[1]) /\ (\E p \in Visible(img) : p[1] = l)
TopOfContent(img, t) == (\A p \in Visible(img) : t <= p[2]) /\ (\E p \in Visible(img) : p[2] = t)
RightOfContent(img, r) == (\A p \in Visible(img) : p[1] < r) /\ (\E p \in Visible(img) : p[1] = r - 1)
BottomOfContent(img, b) == (\A p \in Visible(img) : p[2] < b) /\ (\E p \in Visible(img) : p[2] = b - 1)

\* C6: crop_to_content with padding p returns the sub-rectangle
\* [max(0, l-p), min(W, r+p)) x [max(0, t-p), min(H, b+p)) of the input, (l, t, r, b)
\* being the content box, so it holds every visible pixel and stays inside the
\* input; a frame without visible pixel keeps its dimensions.
C6_CropToContentBox ==
    pfn = "crop_to_content" =>
        IF Visible(pin) = {}
        THEN pres.w = pin.w /\ pres.h = pin.h
        ELSE \E l \in 0 .. pin.w : LeftOfContent(pin, l) /\
             \E t \in 0 .. pin.h : TopOfContent(pin, t) /\
             \E r \in 0 .. pin.w : RightOfContent(pin, r) /\
             \E b \in 0 .. pin.h : BottomOfContent(pin, b) /\
                LET L == IF l - ppad > 0 THEN l - ppad ELSE 0
                    T == IF t - ppad > 0 THEN t - ppad ELSE 0
                    R == IF r + ppad < pin.w THEN r + ppad ELSE pin.w
                    B == IF b + ppad < pin.h THEN b + ppad ELSE pin.h
                IN  /\ pres.w = R - L /\ pres.h = B - T
                    /\ \A p \in Positions(pres.w, pres.h) :
                          getpixel(pres, p) = getpixel(pin, <<p[1] + L, p[2] + T>>)
                    /\ \A p \in Visible(pin) :
                          /\ <<p[1] - L, p[2] - T>> \in Positions(pres.w, pres.h)
                          /\ getpixel(pres, <<p[1] - L, p[2] - T>>) = getpixel(pin, p)

C6_Witness ==
    /\ pfn = "crop_to_content"
    /\ ppad = 1
    /\ pin.w = 3 /\ pin.h = 3
    /\ Visible(pin) = {<<0, 1>>}
    /\ pres.w = 2 /\ pres.h = 3

\* C7: in every cell the load pipeline produces, the subject's lowest visible
\* pixel is the same number of rows above the cell's bottom edge.
C7_FeetAtOneFixedMargin ==
    \A d1 \in DOMAIN raw_frames, d2 \in DOMAIN raw_frames :
        (Visible(raw_frames[d1]) # {} /\ Visible(raw_frames[d2]) # {})
            => BottomMargin(raw_frames[d1]) = BottomMargin(raw_frames[d2])

\* C8: the manifest's groundLine (110) is the row where every cell has the bottom
\* edge of its subject, and its safe-zone margin (8) is free on every side.
C8_ManifestGroundLineIsTheAnchor ==
    "manifest.json" \in DOMAIN outputs =>
        \A d \in DOMAIN raw_frames :
            Visible(raw_frames[d]) # {} =>
                /\ LowestVisibleRow(raw_frames[d]) \in
                      {outputs["manifest.json"].groundLine - 1, outputs["manifest.json"].groundLine}
                /\ \A p \in Visible(raw_frames[d]) :
                      /\ p[1] >= outputs["manifest.json"].safeZone.margin
                      /\ p[1] < 128 - outputs["manifest.json"].safeZone.margin
                      /\ p[2] >= outputs["manifest.json"].safeZone.margin
                      /\ p[2] < 128 - outputs["manifest.json"].safeZone.margin

\* C9: create_walk_variations gives 4 cells of the base's size: frames 0 and 2
\* are the base, frame 1 is the base's visible pixels 3 rows lower, frame 3 the
\* base's visible pixels 2 rows higher, each on a fresh transparent canvas.
C9_VariationsAreShiftedCopies ==
    \A d \in DOMAIN direction_frames :
        LET base == raw_frames[d]
            frames == direction_frames[d]
        IN  /\ Len(frames) = 4
            /\ frames[1] = base
            /\ frames[2] = Shifted(base, 3)
            /\ frames[3] = base
            /\ frames[4] = Shifted(base, -2)

\* C10: the four frames of a direction all have as many visible pixels as the base cell.
C10_VariationsKeepEveryVisiblePixel ==
    \A d \in DOMAIN direction_frames :
        \A k \in 1 .. 4 :
            Cardinality(Visible(direction_frames[d][k])) = Cardinality(Visible(raw_frames[d]))

====
